---- MODULE Spec2Model ----
(***************************************************************************)
(* Model of modin/experimental/cloud/rayscale.py: the RayCluster lifecycle *)
(* controller (spawn, destroy, connection details), its two _ThreadTask    *)
(* objects, the background bodies __spawn and __destroy, and the           *)
(* content-addressed persistence of the cluster config.                    *)
(*                                                                         *)
(* Three specifications:                                                   *)
(*   SpecConfig  RayCluster.__init__ applied repeatedly to one config      *)
(*               directory (make_config / save_config).                    *)
(*   Spec        one constructed cluster driven through its methods by     *)
(*               several caller threads, exactly as the source runs it.    *)
(*               __run_thread creates the Thread but never calls start(),  *)
(*               so no background body runs under Spec.                    *)
(*   SpecTarget  Spec, plus the Thread referenced by task.thread being     *)
(*               started by its holder (threading.Thread.start invoking    *)
(*               task.target), which is the only way the bodies __spawn    *)
(*               and __destroy execute.                                    *)
(***************************************************************************)
EXTENDS Integers, Sequences, FiniteSets, TLC

\* ----------------------------------------------------------------- bounds
NumCallers == 2      \* caller threads using the cluster object
MaxCalls == 3        \* method calls made on the cluster object, over all callers
MaxClusters == 3     \* RayCluster constructions against one config directory
NumContents == 3     \* distinct config documents make_config can produce
HashLen == 5         \* modelled length of the hex digest (sha1 gives 40)
MaxJoinCalls == 2    \* spawn / destroy calls made under FairTarget

\* ------------------------------------------------------ program constants
MinPrefix == 4       \* range(4, len(namehash))

None == "None"
NoThread == 0                               \* task.thread is None
NoConfig == [id |-> -1, filled |-> FALSE]   \* self.config is None
NoPath == <<>>                              \* no path
Ops == {"spawn", "destroy"}
Callers == 1..NumCallers
Contents == 0..(NumContents - 1)
Providers == {"AWS", "GCP"}

\* Provider.AWS is the only key of __instance_key and of __credentials_env.
instance_key == {"AWS"}
credentials_env == {"AWS"}

\* A config document: the content make_config produced (id) and whether the
\* provisioning tool has rewritten the file holding it (filled).
Docs == [id : Contents, filled : BOOLEAN]

VARIABLES
    fs,           \* config directory: path (a hash prefix) -> document stored
    environ,      \* os.environ["AWS_CONFIG_FILE"], None when unset
    ctor,         \* constructions so far: sequence of [provider, id, error, path]
    ready,        \* self.ready
    config,       \* self.config (a document, or NoConfig)
    config_file,  \* self.config_file
    task,         \* self.spawner / self.destroyer: [thread, exc, silent]
    excAttr,      \* self.spawn_exc / self.destroy_exc
    thr,          \* Thread objects, named by <<op, creating caller>>
    pc,           \* each caller thread's position
    cur,          \* each caller thread's call in progress
    hist,         \* each caller thread's completed calls and their outcomes
    stderr,       \* number of diagnostics written to sys.stderr, per operation
    calls,        \* invocations of the provisioning tool, per entry point
    mixed         \* history: a __spawn and a __destroy body have run concurrently

vars == <<fs, environ, ctor, ready, config, config_file, task, excAttr, thr,
          pc, cur, hist, stderr, calls, mixed>>

objVars == <<ready, config, config_file, task, excAttr, thr, pc, cur, hist,
             stderr, calls, mixed>>

\* ------------------------------------------------------------ save_config
Min(S) == CHOOSE x \in S : \A y \in S : x <= y

\* sha1(repr(config)).hexdigest(), over a two-letter alphabet: injective on
\* documents, with documents sharing every proper prefix (ids 0 and 1) and
\* documents differing from the first digit on (id 2).
namehash(doc) ==
    [i \in 1..HashLen |->
        IF i = 1 THEN doc.id \div 2
        ELSE IF i = 2 THEN (IF doc.filled THEN 1 ELSE 0)
        ELSE IF i = HashLen THEN doc.id % 2
        ELSE 0]

Prefix(h, stop) == SubSeq(h, 1, stop)

\* Entry, were the shortest prefix used without probing for an existing file.
EntryNoProbe(dir, doc) == Prefix(namehash(doc), MinPrefix)

\* for stop in range(4, len(namehash)): ... if not os.path.exists(entry): break
\* else: entry = full hash
Entry(dir, doc) ==
    LET h == namehash(doc)
        free == {stop \in MinPrefix..(Len(h) - 1) : Prefix(h, stop) \notin DOMAIN dir}
    IN  IF free = {} THEN h ELSE Prefix(h, Min(free))

\* with open(entry, "w") as out: out.write(yaml.dump(config))
WriteFile(dir, entry, doc) ==
    [p \in (DOMAIN dir) \cup {entry} |-> IF p = entry THEN doc ELSE dir[p]]

\* ------------------------------------------------------------- make_config
make_config(id) == [id |-> id, filled |-> FALSE]

\* ---------------------------------------------------------------- __init__
NewTask == [thread |-> NoThread, exc |-> None, silent |-> FALSE]

NoCall == [op |-> None, wait |-> FALSE]

\* The fields of a cluster object whose constructor has just returned.
FreshObject(doc, entry) ==
    /\ ready = FALSE
    /\ config = doc
    /\ config_file = entry
    /\ task = [op \in Ops |-> NewTask]
    /\ excAttr = [op \in Ops |-> None]
    /\ thr = [t \in Ops \X Callers |-> "none"]
    /\ pc = [c \in Callers |-> "idle"]
    /\ cur = [c \in Callers |-> NoCall]
    /\ hist = [c \in Callers |-> <<>>]
    /\ stderr = [op \in Ops |-> 0]
    /\ calls = [f \in {"create", "teardown", "head"} |-> 0]
    /\ mixed = FALSE

\* New, were the config saved before the instance-type key is looked up.
NewWritesFirst(provider, creds, id) ==
    /\ Len(ctor) < MaxClusters
    /\ LET doc == make_config(id)
           entry == Entry(fs, doc)
       IN  IF (creds /\ provider \notin credentials_env) \/ provider \notin instance_key
           THEN /\ ctor' = Append(ctor, [provider |-> provider, id |-> id,
                                      error |-> "ValueError", path |-> NoPath])
                /\ fs' = WriteFile(fs, entry, doc)
                /\ UNCHANGED <<environ, objVars>>
           ELSE /\ environ' = IF creds THEN "credentials_file" ELSE environ
                /\ fs' = WriteFile(fs, entry, doc)
                /\ ctor' = Append(ctor, [provider |-> provider, id |-> id,
                                      error |-> None, path |-> entry])
                /\ config' = doc
                /\ config_file' = entry
                /\ UNCHANGED <<mixed, ready, task, excAttr, thr, pc, cur, hist, stderr, calls>>

\* RayCluster(provider, ...): credentials lookup, make_config, save_config.
New(provider, creds, id) ==
    /\ Len(ctor) < MaxClusters
    /\ IF (creds /\ provider \notin credentials_env) \/ provider \notin instance_key
       THEN /\ ctor' = Append(ctor, [provider |-> provider, id |-> id, error |-> "ValueError",
                                  path |-> NoPath])
            /\ UNCHANGED <<fs, environ, objVars>>
       ELSE LET doc == make_config(id)
                entry == Entry(fs, doc)
            IN  /\ environ' = IF creds THEN "credentials_file" ELSE environ
                /\ fs' = WriteFile(fs, entry, doc)
                /\ ctor' = Append(ctor, [provider |-> provider, id |-> id, error |-> None,
                                      path |-> entry])
                /\ config' = doc
                /\ config_file' = entry
                /\ UNCHANGED <<mixed, ready, task, excAttr, thr, pc, cur, hist, stderr, calls>>

InitConfig ==
    /\ fs = <<>>
    /\ environ = None
    /\ ctor = <<>>
    /\ FreshObject(NoConfig, NoPath)

NextConfig == \E provider \in Providers, creds \in BOOLEAN, id \in Contents :
                  New(provider, creds, id)

SpecConfig == InitConfig /\ [][NextConfig]_vars

\* The state after RayCluster(AWS, ...), given no credentials file, returned
\* in an empty config directory.
Init ==
    LET doc == make_config(0)
        entry == Entry(<<>>, doc)
    IN  /\ fs = WriteFile(<<>>, entry, doc)
        /\ environ = None
        /\ ctor = <<[provider |-> "AWS", id |-> 0, error |-> None, path |-> entry]>>
        /\ FreshObject(doc, entry)

\* ------------------------------------------------------------ __run_thread
\* The Thread object task.thread refers to.
ThreadOf(op) == <<op, task[op].thread>>

\* threading.Thread.is_alive(): started and its target has not returned.
Alive(st) == st \in {"call", "load", "flag", "clear"}
Finished(st) == st \in {"ok", "fail"}

\* Calls begun so far by the caller threads in S.
RECURSIVE Begun(_)
Begun(S) ==
    IF S = {} THEN 0
    ELSE LET c == CHOOSE x \in S : TRUE
         IN  Len(hist[c]) + (IF pc[c] = "idle" THEN 0 ELSE 1) + Begun(S \ {c})

\* A call ends: its outcome is appended to the caller's history.
Complete(c, res, joined) ==
    /\ hist' = [hist EXCEPT ![c] =
                   Append(@, [op |-> cur[c].op, wait |-> cur[c].wait,
                              res |-> res, joined |-> joined])]
    /\ cur' = [cur EXCEPT ![c] = NoCall]
    /\ pc' = [pc EXCEPT ![c] = "idle"]

\* spawn(wait) / destroy(wait) enter __run_thread and evaluate
\* "if not task.thread".
Call(c, op, wait) ==
    /\ pc[c] = "idle"
    /\ Begun(Callers) < MaxCalls
    /\ cur' = [cur EXCEPT ![c] = [op |-> op, wait |-> wait]]
    /\ pc' = [pc EXCEPT ![c] =
                 IF task[op].thread = NoThread THEN "create"
                 ELSE IF wait THEN "silent" ELSE "return"]
    /\ UNCHANGED <<mixed, fs, environ, ctor, ready, config, config_file, task, excAttr,
                   thr, hist, stderr, calls>>

\* task.thread = threading.Thread(target=task.target): a new Thread object,
\* not started.
Create(c) ==
    /\ pc[c] = "create"
    /\ thr' = [thr EXCEPT ![<<cur[c].op, c>>] = "initial"]
    /\ task' = [task EXCEPT ![cur[c].op].thread = c]
    /\ pc' = [pc EXCEPT ![c] = IF cur[c].wait THEN "silent" ELSE "return"]
    /\ UNCHANGED <<mixed, fs, environ, ctor, ready, config, config_file, excAttr,
                   cur, hist, stderr, calls>>

\* "if wait:" is false: __run_thread returns None.
Return(c) ==
    /\ pc[c] = "return"
    /\ Complete(c, "returned", "none")
    /\ UNCHANGED <<mixed, fs, environ, ctor, ready, config, config_file, task, excAttr,
                   thr, stderr, calls>>

\* task.silent = True
Silent(c) ==
    /\ pc[c] = "silent"
    /\ task' = [task EXCEPT ![cur[c].op].silent = TRUE]
    /\ pc' = [pc EXCEPT ![c] = "join"]
    /\ UNCHANGED <<mixed, fs, environ, ctor, ready, config, config_file, excAttr, thr,
                   cur, hist, stderr, calls>>

\* Join, were join() to wait for a Thread that has not been started instead
\* of raising RuntimeError.
JoinBlocksUnstarted(c) ==
    /\ pc[c] = "join"
    /\ LET op == cur[c].op
           st == thr[<<op, task[op].thread>>]
       IN  /\ st \in {"ok", "fail"}
           /\ task' = [task EXCEPT ![op].exc = None]
           /\ Complete(c, IF task[op].exc = None THEN "returned" ELSE task[op].exc, st)
    /\ UNCHANGED <<mixed, fs, environ, ctor, ready, config, config_file, excAttr, thr,
                   stderr, calls>>

\* task.thread.join(); exc, task.exc = task.exc, None; if exc: raise exc.
\* join() raises RuntimeError on a Thread that was never started, blocks
\* while the Thread is alive, and returns once it has finished.
Join(c) ==
    /\ pc[c] = "join"
    /\ LET op == cur[c].op
           st == thr[ThreadOf(op)]
       IN  \/ /\ st = "initial"
              /\ Complete(c, "RuntimeError", "unstarted")
              /\ UNCHANGED task
           \/ /\ Finished(st)
              /\ task' = [task EXCEPT ![op].exc = None]
              /\ Complete(c, IF task[op].exc = None THEN "returned" ELSE task[op].exc, st)
    /\ UNCHANGED <<mixed, fs, environ, ctor, ready, config, config_file, excAttr, thr,
                   stderr, calls>>

\* -------------------------------------------------- _get_connection_details
\* GetConnectionDetails, were the assertion on self.ready missing.
GetConnectionDetailsNoAssert(c) ==
    /\ pc[c] = "idle"
    /\ Begun(Callers) < MaxCalls
    /\ LET res == IF config = NoConfig THEN "TypeError" ELSE "ConnectionDetails"
       IN  /\ hist' = [hist EXCEPT ![c] =
                          Append(@, [op |-> "details", wait |-> FALSE,
                                     res |-> res, joined |-> "none"])]
           /\ calls' = [calls EXCEPT !["head"] =
                           IF res = "ConnectionDetails" THEN @ + 1 ELSE @]
    /\ UNCHANGED <<mixed, fs, environ, ctor, ready, config, config_file, task, excAttr,
                   thr, pc, cur, stderr>>

\* assert self.ready; ConnectionDetails(config[...], config[...],
\* get_head_node_ip(config_file)).  Subscripting config when it is None
\* raises TypeError.
GetConnectionDetails(c) ==
    /\ pc[c] = "idle"
    /\ Begun(Callers) < MaxCalls
    /\ LET res == IF ~ready THEN "AssertionError"
                  ELSE IF config = NoConfig THEN "TypeError"
                  ELSE "ConnectionDetails"
       IN  /\ hist' = [hist EXCEPT ![c] =
                          Append(@, [op |-> "details", wait |-> FALSE,
                                     res |-> res, joined |-> "none"])]
           /\ calls' = [calls EXCEPT !["head"] =
                           IF res = "ConnectionDetails" THEN @ + 1 ELSE @]
    /\ UNCHANGED <<mixed, fs, environ, ctor, ready, config, config_file, task, excAttr,
                   thr, pc, cur, stderr>>

\* ------------------------------------------------------- _get_main_python
GetMainPython(c) ==
    /\ pc[c] = "idle"
    /\ Begun(Callers) < MaxCalls
    /\ hist' = [hist EXCEPT ![c] =
                   Append(@, [op |-> "python", wait |-> FALSE,
                              res |-> "~/miniconda/envs/modin/bin/python",
                              joined |-> "none"])]
    /\ UNCHANGED <<mixed, fs, environ, ctor, ready, config, config_file, task, excAttr,
                   thr, pc, cur, stderr, calls>>

Next ==
    \/ \E c \in Callers, op \in Ops, wait \in BOOLEAN : Call(c, op, wait)
    \/ \E c \in Callers : Create(c)
    \/ \E c \in Callers : Return(c)
    \/ \E c \in Callers : Silent(c)
    \/ \E c \in Callers : Join(c)
    \/ \E c \in Callers : GetConnectionDetails(c)
    \/ \E c \in Callers : GetMainPython(c)

Spec == Init /\ [][Next]_vars

\* ------------------------------------------------- threading.Thread.start
\* The Thread task.thread refers to is started: its target begins to run.
\* No method of RayCluster does this; the holder of the task object can.
Start(op) ==
    /\ task[op].thread # NoThread
    /\ thr[ThreadOf(op)] = "initial"
    /\ thr' = [thr EXCEPT ![ThreadOf(op)] = "call"]
    /\ mixed' = (mixed \/ \E t \in Ops \X Callers : t[1] # op /\ Alive(thr[t]))
    /\ UNCHANGED <<fs, environ, ctor, ready, config, config_file, task, excAttr,
                   pc, cur, hist, stderr, calls>>

\* ------------------------------------------------------------------ __spawn
\* SpawnCall, were ready set as soon as the tool returns, before the reload.
SpawnCallReadyEarly(t, rewrite) ==
    /\ t[1] = "spawn"
    /\ thr[t] = "call"
    /\ calls' = [calls EXCEPT !["create"] = @ + 1]
    /\ fs' = IF rewrite
             THEN [fs EXCEPT ![config_file] = [@ EXCEPT !.filled = TRUE]]
             ELSE fs
    /\ ready' = TRUE
    /\ thr' = [thr EXCEPT ![t] = "load"]
    /\ UNCHANGED <<mixed, environ, ctor, config, config_file, task, excAttr,
                   pc, cur, hist, stderr>>

\* create_or_update_cluster(config_file, ...) returns; the tool may have
\* rewritten the config file in place.
SpawnCall(t, rewrite) ==
    /\ t[1] = "spawn"
    /\ thr[t] = "call"
    /\ calls' = [calls EXCEPT !["create"] = @ + 1]
    /\ fs' = IF rewrite
             THEN [fs EXCEPT ![config_file] = [@ EXCEPT !.filled = TRUE]]
             ELSE fs
    /\ thr' = [thr EXCEPT ![t] = "load"]
    /\ UNCHANGED <<mixed, environ, ctor, ready, config, config_file, task, excAttr,
                   pc, cur, hist, stderr>>

\* SpawnExcept, were the error stored in the task (self.spawner.exc), where
\* __run_thread looks for it.
SpawnExceptTaskExc(t, rewrite) ==
    /\ t[1] = "spawn"
    /\ thr[t] = "call"
    /\ calls' = [calls EXCEPT !["create"] = @ + 1]
    /\ fs' = IF rewrite
             THEN [fs EXCEPT ![config_file] = [@ EXCEPT !.filled = TRUE]]
             ELSE fs
    /\ task' = [task EXCEPT !["spawn"].exc = "CannotSpawnCluster"]
    /\ stderr' = [stderr EXCEPT !["spawn"] =
                     IF task["spawn"].silent THEN @ ELSE @ + 1]
    /\ thr' = [thr EXCEPT ![t] = "fail"]
    /\ UNCHANGED <<mixed, environ, ctor, ready, config, config_file, excAttr, pc, cur, hist>>

\* except BaseException: self.spawn_exc = CannotSpawnCluster(...);
\* if not self.spawner.silent: sys.stderr.write(...)
SpawnExcept(t, rewrite) ==
    /\ t[1] = "spawn"
    /\ thr[t] = "call"
    /\ calls' = [calls EXCEPT !["create"] = @ + 1]
    /\ fs' = IF rewrite
             THEN [fs EXCEPT ![config_file] = [@ EXCEPT !.filled = TRUE]]
             ELSE fs
    /\ excAttr' = [excAttr EXCEPT !["spawn"] = "CannotSpawnCluster"]
    /\ stderr' = [stderr EXCEPT !["spawn"] =
                     IF task["spawn"].silent THEN @ ELSE @ + 1]
    /\ thr' = [thr EXCEPT ![t] = "fail"]
    /\ UNCHANGED <<mixed, environ, ctor, ready, config, config_file, task, pc, cur, hist>>

\* with open(self.config_file) as inp: self.config = yaml.safe_load(...)
SpawnLoad(t) ==
    /\ t[1] = "spawn"
    /\ thr[t] = "load"
    /\ config' = fs[config_file]
    /\ thr' = [thr EXCEPT ![t] = "flag"]
    /\ UNCHANGED <<mixed, fs, environ, ctor, ready, config_file, task, excAttr, pc,
                   cur, hist, stderr, calls>>

\* self.ready = True
SpawnReady(t) ==
    /\ t[1] = "spawn"
    /\ thr[t] = "flag"
    /\ ready' = TRUE
    /\ thr' = [thr EXCEPT ![t] = "ok"]
    /\ UNCHANGED <<mixed, fs, environ, ctor, config, config_file, task, excAttr, pc,
                   cur, hist, stderr, calls>>

\* ---------------------------------------------------------------- __destroy
\* teardown_cluster(config_file, ...) returns.
DestroyCall(t) ==
    /\ t[1] = "destroy"
    /\ thr[t] = "call"
    /\ calls' = [calls EXCEPT !["teardown"] = @ + 1]
    /\ thr' = [thr EXCEPT ![t] = "flag"]
    /\ UNCHANGED <<mixed, fs, environ, ctor, ready, config, config_file, task, excAttr,
                   pc, cur, hist, stderr>>

\* DestroyExcept, were the handler also to reset the cluster's state.
DestroyExceptClears(t) ==
    /\ t[1] = "destroy"
    /\ thr[t] = "call"
    /\ calls' = [calls EXCEPT !["teardown"] = @ + 1]
    /\ excAttr' = [excAttr EXCEPT !["destroy"] = "CannotDestroyCluster"]
    /\ stderr' = [stderr EXCEPT !["destroy"] =
                     IF task["destroy"].silent THEN @ ELSE @ + 1]
    /\ ready' = FALSE
    /\ config' = NoConfig
    /\ thr' = [thr EXCEPT ![t] = "fail"]
    /\ UNCHANGED <<mixed, fs, environ, ctor, config_file, task, pc, cur, hist>>

\* DestroyExcept, were the handler to write no diagnostic.
DestroyExceptMute(t) ==
    /\ t[1] = "destroy"
    /\ thr[t] = "call"
    /\ calls' = [calls EXCEPT !["teardown"] = @ + 1]
    /\ excAttr' = [excAttr EXCEPT !["destroy"] = "CannotDestroyCluster"]
    /\ thr' = [thr EXCEPT ![t] = "fail"]
    /\ UNCHANGED <<mixed, fs, environ, ctor, ready, config, config_file, task, pc, cur,
                   hist, stderr>>

\* except BaseException: self.destroy_exc = CannotDestroyCluster(...);
\* if not self.destroyer.silent: sys.stderr.write(...)
DestroyExcept(t) ==
    /\ t[1] = "destroy"
    /\ thr[t] = "call"
    /\ calls' = [calls EXCEPT !["teardown"] = @ + 1]
    /\ excAttr' = [excAttr EXCEPT !["destroy"] = "CannotDestroyCluster"]
    /\ stderr' = [stderr EXCEPT !["destroy"] =
                     IF task["destroy"].silent THEN @ ELSE @ + 1]
    /\ thr' = [thr EXCEPT ![t] = "fail"]
    /\ UNCHANGED <<mixed, fs, environ, ctor, ready, config, config_file, task, pc, cur,
                   hist>>

\* self.ready = False
\* __destroy without the assignment self.ready = False.
DestroyReadyKept(t) ==
    /\ t[1] = "destroy"
    /\ thr[t] = "flag"
    /\ ready' = ready
    /\ thr' = [thr EXCEPT ![t] = "clear"]
    /\ UNCHANGED <<mixed, fs, environ, ctor, config, config_file, task, excAttr, pc,
                   cur, hist, stderr, calls>>

DestroyReady(t) ==
    /\ t[1] = "destroy"
    /\ thr[t] = "flag"
    /\ ready' = FALSE
    /\ thr' = [thr EXCEPT ![t] = "clear"]
    /\ UNCHANGED <<mixed, fs, environ, ctor, config, config_file, task, excAttr, pc,
                   cur, hist, stderr, calls>>

\* __destroy, were it to drop the file path together with the configuration.
DestroyConfigForgetsFile(t) ==
    /\ t[1] = "destroy"
    /\ thr[t] = "clear"
    /\ config' = NoConfig
    /\ config_file' = NoPath
    /\ thr' = [thr EXCEPT ![t] = "ok"]
    /\ UNCHANGED <<mixed, fs, environ, ctor, ready, task, excAttr, pc,
                   cur, hist, stderr, calls>>

\* self.config = None
DestroyConfig(t) ==
    /\ t[1] = "destroy"
    /\ thr[t] = "clear"
    /\ config' = NoConfig
    /\ thr' = [thr EXCEPT ![t] = "ok"]
    /\ UNCHANGED <<mixed, fs, environ, ctor, ready, config_file, task, excAttr, pc,
                   cur, hist, stderr, calls>>

Threads == Ops \X Callers

NextTarget ==
    \/ Next
    \/ \E op \in Ops : Start(op)
    \/ \E t \in Threads, rewrite \in BOOLEAN : SpawnCall(t, rewrite)
    \/ \E t \in Threads, rewrite \in BOOLEAN : SpawnExcept(t, rewrite)
    \/ \E t \in Threads : SpawnLoad(t)
    \/ \E t \in Threads : SpawnReady(t)
    \/ \E t \in Threads : DestroyCall(t)
    \/ \E t \in Threads : DestroyExcept(t)
    \/ \E t \in Threads : DestroyReady(t)
    \/ \E t \in Threads : DestroyConfig(t)

SpecTarget == Init /\ [][NextTarget]_vars

\* ================================================================ properties
\* The completed calls: <<caller, position in its history>>.
Entries == {x \in Callers \X (1..MaxCalls) : x[2] <= Len(hist[x[1]])}
E(x) == hist[x[1]][x[2]]

\* The error class an operation's failure is wrapped in.
Err(op) == IF op = "spawn" THEN "CannotSpawnCluster" ELSE "CannotDestroyCluster"

\* Caller c has made the only calls on the cluster so far.
Alone(c) == Begun(Callers \ {c}) = 0

\* A wait=True call on op is in progress.
Waiting(op) == \E c \in Callers : pc[c] # "idle" /\ cur[c].op = op /\ cur[c].wait

\* A wait=True call on op has begun at some time.
EverWaited(op) ==
    \/ Waiting(op)
    \/ \E x \in Entries : E(x).op = op /\ E(x).wait

\* C1: on a fresh cluster, when spawn(wait=True) has ended, createOrUpdate has
\* been run to an outcome; if it succeeded the call returned, ready is true and
\* an immediately following getConnectionDetails() returns the details; if it
\* failed ready is false and that getConnectionDetails() fails its assertion.
C1_SpawnThenConnect ==
    \A c \in Callers :
        (Alone(c) /\ Len(hist[c]) >= 1 /\ hist[c][1].op = "spawn" /\ hist[c][1].wait)
        => /\ hist[c][1].joined \in {"ok", "fail"}
           /\ calls["create"] = 1
           /\ hist[c][1].joined = "ok" => hist[c][1].res = "returned"
           /\ Len(hist[c]) = 1 => (ready <=> hist[c][1].joined = "ok")
           /\ (Len(hist[c]) >= 2 /\ hist[c][2].op = "details")
              => hist[c][2].res = IF hist[c][1].joined = "ok"
                                  THEN "ConnectionDetails" ELSE "AssertionError"

\* C2: once a spawn(wait=False) call has returned, the background spawn task
\* has been started (its thread is running or has finished), so that
\* createOrUpdate is invoked.
C2_NoWaitStarts ==
    \A x \in Entries :
        (E(x).op = "spawn" /\ ~E(x).wait)
        => (Alive(thr[ThreadOf("spawn")]) \/ Finished(thr[ThreadOf("spawn")]))

\* C3: when wait=True calls have joined a failed spawn (destroy) attempt, the
\* captured CannotSpawnCluster (CannotDestroyCluster) was raised to exactly
\* one of the wait=True callers: to the first, and to none after it.
C3_WaitReraisesOnce ==
    \A op \in Ops :
        (\E x \in Entries : E(x).op = op /\ E(x).wait /\ E(x).joined = "fail")
        => Cardinality({x \in Entries : E(x).op = op /\ E(x).res = Err(op)}) = 1

\* C4: when a caller has made two spawn(wait=True) calls in sequence, the
\* second returned without error and createOrUpdate was invoked once in total.
C4_SecondSpawnIsNoOp ==
    \A c \in Callers :
        (/\ Len(hist[c]) >= 2
         /\ \A i \in 1..2 : hist[c][i].op = "spawn" /\ hist[c][i].wait)
        => /\ hist[c][2].res = "returned"
           /\ calls["create"] = 1

\* C5: for each operation kind at most one background task is ever created,
\* whatever the calls and however they interleave: createOrUpdate and
\* teardown are each invoked at most once.
C5_AtMostOneTask ==
    /\ \A op \in Ops : Cardinality({c \in Callers : thr[<<op, c>>] # "none"}) <= 1
    /\ calls["create"] <= 1
    /\ calls["teardown"] <= 1

\* C6: the step in which a background destroy's teardown fails leaves ready
\* and the in-memory config as they were.
C6_FailedDestroyKeepsState ==
    [][\A t \in Threads :
          (t[1] = "destroy" /\ thr[t] = "call" /\ thr'[t] = "fail")
          => (ready' = ready /\ config' = config)]_vars

\* A destroy attempt has failed on a cluster that was, and still is, ready.
C6_Witness ==
    \E t \in Threads : t[1] = "destroy" /\ thr[t] = "fail" /\ ready /\ config # NoConfig

C8_FailureSurfaced ==
    \A t \in Threads :
        (thr[t] = "fail" /\ ~Waiting(t[1]))
        => \/ stderr[t[1]] >= 1
           \/ \E x \in Entries : E(x).op = t[1] /\ E(x).res = Err(t[1])

\* C9: a getConnectionDetails() call returns details, and queries the head
\* node address, only when ready is true; when ready is false it fails with
\* AssertionError and queries nothing.
C9_DetailsOnlyWhenReady ==
    [][\A c \in Callers :
          (Len(hist'[c]) = Len(hist[c]) + 1 /\ hist'[c][Len(hist'[c])].op = "details")
          => LET res == hist'[c][Len(hist'[c])].res
             IN  /\ res = "ConnectionDetails" => ready
                 /\ calls'["head"] # calls["head"] => ready
                 /\ ~ready => (res = "AssertionError" /\ calls'["head"] = calls["head"])]_vars

\* getConnectionDetails() has failed on the cluster while it was not ready and
\* has returned details once it was.
C9_Witness ==
    /\ \E x \in Entries : E(x).op = "details" /\ E(x).res = "AssertionError"
    /\ \E x \in Entries : E(x).op = "details" /\ E(x).res = "ConnectionDetails"
    /\ calls["head"] = 1

\* C10: two constructions that persisted the same config content (the first
\* one's file still being in the config directory) got the same path.
C10_SameContentSamePath ==
    \A i, j \in DOMAIN ctor :
        (/\ ctor[i].error = None /\ ctor[j].error = None
         /\ ctor[i].id = ctor[j].id
         /\ ctor[i].path \in DOMAIN fs)
        => ctor[i].path = ctor[j].path

\* The construction a step has just made, when it made one.
Constructed == Len(ctor') = Len(ctor) + 1
Last(s) == s[Len(s)]

\* C11: a construction for a provider that has no entry in the instance-type
\* table fails with the unsupported-provider error (ValueError), and the step
\* writes nothing to the config directory.
C11_UnknownProviderNoWrite ==
    [][(Constructed /\ Last(ctor').provider \notin instance_key)
       => (Last(ctor').error = "ValueError" /\ fs' = fs)]_vars

\* A construction for an unknown provider has failed in a config directory
\* that already held a file, and a construction for a known one has succeeded.
C11_Witness ==
    /\ Len(ctor) >= 2
    /\ Last(ctor).provider \notin instance_key
    /\ Last(ctor).error = "ValueError"
    /\ ctor[1].error = None
    /\ DOMAIN fs # {}

\* C12: ready goes from false to true only in the step of a spawn thread that
\* has had createOrUpdate succeed and has reloaded the config; it goes from
\* true to false only in the step of a destroy thread that has had teardown
\* succeed; no step of a caller thread and no failing createOrUpdate changes it.
C12_ReadyTransitions ==
    [][/\ (~ready /\ ready')
          => \E t \in Threads : t[1] = "spawn" /\ thr[t] = "flag" /\ thr'[t] = "ok"
       /\ (ready /\ ~ready')
          => \E t \in Threads : t[1] = "destroy" /\ thr[t] = "flag" /\ thr'[t] = "clear"
       /\ (pc' # pc \/ hist' # hist) => ready' = ready
       /\ (\E t \in Threads : t[1] = "spawn" /\ thr[t] = "call" /\ thr'[t] = "fail")
          => ready' = ready]_vars

\* ready has been set by a spawn thread and reset by a destroy thread after
\* it, while another spawn attempt has failed leaving it false.
C12_Witness ==
    /\ ~ready
    /\ \E t \in Threads : t[1] = "spawn" /\ thr[t] = "ok"
    /\ \E t \in Threads : t[1] = "spawn" /\ thr[t] = "fail"
    /\ \E t \in Threads : t[1] = "destroy" /\ thr[t] \in {"clear", "ok"}

\* C13: no operation's failure is both written to the error stream and raised
\* to a wait=True caller, however the wait=False calls, the wait=True calls
\* and the background thread interleave.
C13_NotReportedTwice ==
    \A op \in Ops :
        ~(stderr[op] >= 1 /\ \E x \in Entries : E(x).res = Err(op))

\* A task started for a wait=False call has failed and written its
\* diagnostic, and a wait=True call arriving later has joined it and ended.
C13_Witness ==
    \E op \in Ops :
        /\ stderr[op] >= 1
        /\ \E x \in Entries : E(x).op = op /\ ~E(x).wait
        /\ \E x \in Entries : E(x).op = op /\ E(x).wait /\ E(x).joined = "fail"

\* Caller c, alone on the cluster, began with a spawn(wait=True) that joined a
\* successful spawn attempt: the cluster is Ready and no spawn is in flight.
ReadyBy(c) ==
    /\ Alone(c)
    /\ Len(hist[c]) >= 1
    /\ hist[c][1].op = "spawn" /\ hist[c][1].wait /\ hist[c][1].joined = "ok"

\* C14: on a Ready cluster with no spawn in flight, once the destroy thread's
\* teardown has succeeded and its body has finished, and likewise once a
\* destroy(wait=True) call has returned without error, ready is false and the
\* in-memory config is empty.
C14_DestroyClears ==
    \A c \in Callers :
        ReadyBy(c)
        => /\ thr[<<"destroy", c>>] = "ok" => (~ready /\ config = NoConfig)
           /\ (/\ Len(hist[c]) >= 2
               /\ hist[c][2].op = "destroy" /\ hist[c][2].wait
               /\ hist[c][2].res = "returned")
              => (~ready /\ config = NoConfig)

Body(t) ==
    \/ \E rewrite \in BOOLEAN : SpawnCall(t, rewrite)
    \/ \E rewrite \in BOOLEAN : SpawnExcept(t, rewrite)
    \/ SpawnLoad(t)
    \/ SpawnReady(t)
    \/ DestroyCall(t)
    \/ DestroyExcept(t)
    \/ DestroyReady(t)
    \/ DestroyConfig(t)

\* The steps of a caller thread inside __run_thread.
Run(c) == Create(c) \/ Return(c) \/ Silent(c) \/ Join(c)

\* The spawn and destroy calls, the starting of their threads and the bodies:
\* SpecTarget without the calls that never join a thread. Started threads and
\* callers inside a call keep being scheduled, and the
\* provisioning tool's calls return or raise. Nothing obliges anyone to make
\* a call or to start a thread.
NextJoin ==
    \/ \E c \in Callers, op \in Ops, wait \in BOOLEAN :
          Begun(Callers) < MaxJoinCalls /\ Call(c, op, wait)
    \/ \E c \in Callers : Run(c)
    \/ \E op \in Ops : Start(op)
    \/ \E t \in Threads : Body(t)

FairTarget ==
    /\ Init /\ [][NextJoin]_vars
    /\ \A t \in Threads : WF_vars(Body(t))
    /\ \A c \in Callers : WF_vars(Run(c))

\* C16: a started background task is never cancelled or restarted and runs
\* to completion, and every spawn(wait=True) / destroy(wait=True) call in
\* progress eventually ends, by returning or by raising.
C16_WaitTerminates ==
    /\ [][\A t \in Threads :
             /\ Alive(thr[t]) => (Alive(thr'[t]) \/ Finished(thr'[t]))
             /\ Finished(thr[t]) => thr'[t] = thr[t]]_vars
    /\ \A t \in Threads : Alive(thr[t]) ~> Finished(thr[t])
    /\ \A c \in Callers : (pc[c] # "idle" /\ cur[c].wait) ~> (pc[c] = "idle")

\* A wait=True call has blocked on a running task and ended after the task
\* finished, and another wait=True call has ended by raising.
C16_Witness ==
    /\ \E x \in Entries : E(x).wait /\ E(x).joined \in {"ok", "fail"}
    /\ \E x \in Entries : E(x).wait /\ E(x).res = "RuntimeError"

Queried ==
    \E c \in Callers : /\ Len(hist'[c]) = Len(hist[c]) + 1
                       /\ Last(hist'[c]).op \in {"details", "python"}

\* C18: the path chosen at construction never changes: config_file stays
\* what the constructor returned, through spawn, destroy (successful or
\* failed) and the queries, and the only file the provisioning calls touch is
\* the one at that path; _get_connection_details and _get_main_python leave
\* ready, config and both tasks unchanged.
C18_PathAndQueriesFrame ==
    [][/\ config_file = ctor[1].path
       /\ config_file' = config_file
       /\ DOMAIN fs' = DOMAIN fs
       /\ \A p \in DOMAIN fs : p # ctor[1].path => fs'[p] = fs[p]
       /\ Queried => UNCHANGED <<ready, config, task, thr, excAttr, stderr, fs>>]_vars

\* A spawn body rewrote and loaded the file, the details were handed out, and
\* a destroy body has ended, with the path still the constructor's.
C18_Witness ==
    /\ config_file = ctor[1].path
    /\ fs[config_file].filled
    /\ \E t \in Threads : t[1] = "spawn" /\ thr[t] = "ok"
    /\ \E t \in Threads : t[1] = "destroy" /\ Finished(thr[t])
    /\ \E x \in Entries : E(x).op = "details" /\ E(x).res = "ConnectionDetails"

====
